---- MODULE Spec2Model ----
(***************************************************************************)
(* Tabular Q-learning agent (lab/agents/q_learning_agent.py).              *)
(*                                                                         *)
(* Q values are exact rationals <<n, d>> in lowest terms.  The learning    *)
(* rate, the discount factor and the rewards used here are dyadic, so the  *)
(* IEEE-754 double arithmetic of the program is exact on every value the   *)
(* model reaches and the rational arithmetic agrees with it bit for bit.   *)
(*                                                                         *)
(* np.random is the module-level generator of NumPy: one object for the    *)
(* whole process.  It is modelled as a small full-period congruential      *)
(* generator: seed() sets its state, every draw advances it.               *)
(***************************************************************************)
EXTENDS Integers, Sequences, FiniteSets, TLC

(* ------------------------------ bounds -------------------------------- *)
NumAgents == 2
MaxUpdates == 2
MaxSeed == 1
MaxReward == 1
RngMod == 3
MaxScript == 4

(* --------------------------- configuration ---------------------------- *)
num_states == 2
num_actions == 2

Agents == 1..NumAgents
Solo == {1}
States == 0..(num_states - 1)
Actions == 0..(num_actions - 1)
Seeds == 0..MaxSeed
Rewards == {0 - MaxReward, MaxReward}
Observations == (0 - 1)..num_states

(* ----------------------------- rationals ------------------------------ *)
Abs(x) == IF x < 0 THEN 0 - x ELSE x

RECURSIVE GCD(_, _)
GCD(a, b) == IF b = 0 THEN a ELSE GCD(b, a % b)

Rat(n, d) == LET g == GCD(Abs(n), d) IN <<n \div g, d \div g>>
Zero == <<0, 1>>
Half == <<1, 2>>
FromInt(k) == <<k, 1>>
RAdd(x, y) == Rat(x[1] * y[2] + y[1] * x[2], x[2] * y[2])
RSub(x, y) == Rat(x[1] * y[2] - y[1] * x[2], x[2] * y[2])
RMul(x, y) == Rat(x[1] * y[1], x[2] * y[2])
RLess(x, y) == x[1] * y[2] < y[1] * x[2]
RLeq(x, y) == x[1] * y[2] <= y[1] * x[2]

LearningRates == {Half}
DiscountFactors == {Half}
ExplorationRates == {Zero, Half}

(* -------------------------- optional values --------------------------- *)
None == <<>>
Some(k) == <<k>>
Val(o) == o[1]

VARIABLES
    Q,                \* Q[i][s][a]: the value table of agent i
    last_state,       \* None, or Some(observation)
    last_action,      \* None while the attribute was never assigned
    eval_mode,        \* the evaluation-mode flag of the base class
    learning_rate,
    exploration_rate,
    discount_factor,
    np_random,        \* state of the process-wide generator np.random
    lastOp,           \* the call that produced this state, and its outcome
    phase,            \* where each agent stands in the training-loop protocol
    updates,          \* updates[i]: number of TD updates agent i has applied
    script,           \* the calls issued so far by the scripted driver
    pos,              \* pos[i]: how many calls of the script agent i has run
    returned          \* returned[i]: the outcomes of agent i's act() calls

confVars == <<learning_rate, exploration_rate, discount_factor>>
driverVars == <<script, pos, returned>>
vars == <<Q, last_state, last_action, eval_mode, learning_rate,
          exploration_rate, discount_factor, np_random, lastOp, phase,
          updates, script, pos, returned>>

(* ------------------------- the random source -------------------------- *)
\* self._rng = np.random: every agent holds the same module object.
RngState(i) == np_random

\* np.random.seed(seed): the state is a function of the seed only.
SeedState(s) == s % RngMod

\* one step of the generator
Advance(x) == (x + 1) % RngMod

\* np.random.random(): a float in [0, 1) read off the advanced state
RandomValue(x) == Rat(Advance(x), RngMod)

\* a randint whose upper end is inclusive
RandintInclusive(x, n) == Advance(x) % (n + 1)

\* np.random.randint(n): an integer in [0, n) read off the advanced state
Randint(x, n) == Advance(x) % n

(* ------------------------------ NumPy --------------------------------- *)
\* an integer index k is accepted on an axis of length n iff -n <= k < n
InBounds(k, n) == (0 - n) <= k /\ k < n
\* negative indices count from the end
Wrap(k, n) == IF k < 0 THEN k + n ELSE k

\* np.argmax over f[0..n-1]: the first index holding the maximum
RECURSIVE ArgMaxScan(_, _, _, _)
ArgMaxScan(f, k, n, best) ==
    IF k >= n THEN best
    ELSE ArgMaxScan(f, k + 1, n, IF RLess(f[best], f[k]) THEN k ELSE best)

\* an argmax that replaces the best seen on >=, so the last maximum wins
RECURSIVE ArgMaxLastScan(_, _, _, _)
ArgMaxLastScan(f, k, n, best) ==
    IF k >= n THEN best
    ELSE ArgMaxLastScan(f, k + 1, n, IF RLeq(f[best], f[k]) THEN k ELSE best)

ArgMaxLast(f, n) == ArgMaxLastScan(f, 1, n, 0)

ArgMax(f, n) == ArgMaxScan(f, 1, n, 0)

\* np.max over f[0..n-1]
RECURSIVE MaxScan(_, _, _, _)
MaxScan(f, k, n, best) ==
    IF k >= n THEN best
    ELSE MaxScan(f, k + 1, n, IF RLess(best, f[k]) THEN f[k] ELSE best)

Max(f, n) == MaxScan(f, 1, n, f[0])

\* Q[None]: a new leading axis of length 1; argmax sees the table flattened
\* in row-major order
Flat(q) == [k \in 0..(num_states * num_actions - 1) |->
               q[k \div num_actions][k % num_actions]]

ZeroTable == [s \in States |-> [a \in Actions |-> Zero]]

(* -------------------------- _greedy_action ---------------------------- *)
\* np.argmax(self._Q[self._last_state])
greedy_action(i) ==
    IF last_state[i] = None
    THEN [err |-> FALSE, action |-> ArgMax(Flat(Q[i]), num_states * num_actions)]
    ELSE IF InBounds(Val(last_state[i]), num_states)
         THEN [err |-> FALSE,
               action |-> ArgMax(Q[i][Wrap(Val(last_state[i]), num_states)],
                                 num_actions)]
         ELSE [err |-> TRUE, action |-> 0 - 1]

(* ---------------------- _epsilon_greedy_action ------------------------ *)
\* a coin flip that compares with <=
ExploresInclusive(x, eps) == RLeq(RandomValue(x), eps)

\* self._rng.random() < self._exploration_rate
Explores(x, eps) == RLess(RandomValue(x), eps)

epsilon_greedy_action(i) ==
    IF Explores(RngState(i), exploration_rate)
    THEN [err |-> FALSE,
          action |-> Randint(Advance(RngState(i)), num_actions),
          rng |-> Advance(Advance(RngState(i)))]
    ELSE [err |-> greedy_action(i).err,
          action |-> greedy_action(i).action,
          rng |-> Advance(RngState(i))]

\* the outcome of act() in the given mode
ActOutcome(i, evalMode) ==
    IF evalMode
    THEN [err |-> greedy_action(i).err,
          action |-> greedy_action(i).action,
          rng |-> RngState(i)]
    ELSE epsilon_greedy_action(i)

(* ------------------------------- learn -------------------------------- *)
\* a target that bootstraps from the first action of the next state
TDTargetFirstAction(q, r, o) ==
    RAdd(FromInt(r), RMul(discount_factor, q[Wrap(o, num_states)][0]))

\* target = reward + discount_factor * np.max(Q[state])
TDTarget(q, r, o) ==
    RAdd(FromInt(r), RMul(discount_factor, Max(q[Wrap(o, num_states)], num_actions)))

\* cell += learning_rate * (target - cell)
TDStep(cell, target) == RAdd(cell, RMul(learning_rate, RSub(target, cell)))

\* learn raises before it writes anything: AttributeError when _last_action
\* was never assigned, IndexError when an index is out of bounds.
\* Q[None, a] is row a under a new leading axis; Q[s, a] is one cell of row s
LearnFails(i, o) ==
    \/ last_action[i] = None
    \/ ~InBounds(o, num_states)
    \/ /\ last_state[i] = None
       /\ ~InBounds(Val(last_action[i]), num_states)
    \/ /\ last_state[i] # None
       /\ \/ ~InBounds(Val(last_state[i]), num_states)
          \/ ~InBounds(Val(last_action[i]), num_actions)

UpdatedTable(i, r, o) ==
    LET q == Q[i]
        target == TDTarget(q, r, o)
        a == Val(last_action[i])
    IN  IF last_state[i] = None
        THEN LET row == Wrap(a, num_states)
             IN [q EXCEPT ![row] = [b \in Actions |-> TDStep(q[row][b], target)]]
        ELSE LET row == Wrap(Val(last_state[i]), num_states)
                 col == Wrap(a, num_actions)
             IN [q EXCEPT ![row][col] = TDStep(q[row][col], target)]

\* a learn that forgets to advance the cursor
LearnOutcomeStale(i, r, o) ==
    IF LearnFails(i, o)
    THEN [err |-> TRUE, table |-> Q[i], cursor |-> last_state[i]]
    ELSE [err |-> FALSE, table |-> UpdatedTable(i, r, o), cursor |-> last_state[i]]

LearnOutcome(i, r, o) ==
    IF LearnFails(i, o)
    THEN [err |-> TRUE, table |-> Q[i], cursor |-> last_state[i]]
    ELSE [err |-> FALSE, table |-> UpdatedTable(i, r, o), cursor |-> Some(o)]

(* ---------------------- the training-loop contract -------------------- *)
\* begin_episode(o) needs 0 <= o < num_states; act() needs a begin_episode
\* before it; learn(r, o) needs an act() since the last begin_episode or
\* learn, and 0 <= o < num_states.  "off": the caller broke the contract.
AfterBegin(p, o) ==
    IF p # "off" /\ o \in States THEN "begun" ELSE "off"
AfterAct(p) == IF p \in {"begun", "acted"} THEN "acted" ELSE "off"
AfterLearn(p, o) ==
    IF p = "acted" /\ o \in States THEN "begun" ELSE "off"

(* ------------------------------ records ------------------------------- *)
\* ret is the value a call returned: an action for act(), -1 for no value
OpRecord(op, i, err, ret) ==
    [op |-> op, agent |-> i, err |-> err, ret |-> ret]

(* ------------------------------ methods ------------------------------- *)
seed(i, s) ==
    /\ np_random' = SeedState(s)
    /\ lastOp' = OpRecord("seed", i, FALSE, 0 - 1)
    /\ UNCHANGED <<Q, last_state, last_action, eval_mode, phase, updates>>
    /\ UNCHANGED confVars

set_eval_mode(i, b) ==
    /\ eval_mode' = [eval_mode EXCEPT ![i] = b]
    /\ lastOp' = OpRecord("eval_mode", i, FALSE, 0 - 1)
    /\ UNCHANGED <<Q, last_state, last_action, np_random, phase, updates>>
    /\ UNCHANGED confVars

begin_episode(i, o) ==
    /\ last_state' = [last_state EXCEPT ![i] = Some(o)]
    /\ phase' = [phase EXCEPT ![i] = AfterBegin(@, o)]
    /\ lastOp' = OpRecord("begin_episode", i, FALSE, 0 - 1)
    /\ UNCHANGED <<Q, last_action, eval_mode, np_random, updates>>
    /\ UNCHANGED confVars

\* an act that records the action in last_state as well
act_clobbers_state(i) ==
    LET out == ActOutcome(i, eval_mode[i])
    IN  /\ np_random' = out.rng
        /\ last_action' = IF out.err THEN last_action
                          ELSE [last_action EXCEPT ![i] = Some(out.action)]
        /\ last_state' = IF out.err THEN last_state
                         ELSE [last_state EXCEPT ![i] = Some(out.action)]
        /\ phase' = [phase EXCEPT ![i] = AfterAct(@)]
        /\ lastOp' = OpRecord("act", i, out.err, out.action)
        /\ UNCHANGED <<Q, eval_mode, updates>>
        /\ UNCHANGED confVars

act(i) ==
    LET out == ActOutcome(i, eval_mode[i])
    IN  /\ np_random' = out.rng
        /\ last_action' = IF out.err THEN last_action
                          ELSE [last_action EXCEPT ![i] = Some(out.action)]
        /\ phase' = [phase EXCEPT ![i] = AfterAct(@)]
        /\ lastOp' = OpRecord("act", i, out.err, out.action)
        /\ UNCHANGED <<Q, last_state, eval_mode, updates>>
        /\ UNCHANGED confVars

learn(i, r, o) ==
    LET out == LearnOutcome(i, r, o)
    IN  /\ out.err \/ updates[i] < MaxUpdates
        /\ Q' = [Q EXCEPT ![i] = out.table]
        /\ last_state' = [last_state EXCEPT ![i] = out.cursor]
        /\ updates' = IF out.err THEN updates ELSE [updates EXCEPT ![i] = @ + 1]
        /\ phase' = [phase EXCEPT ![i] = AfterLearn(@, o)]
        /\ lastOp' = OpRecord("learn", i, out.err, 0 - 1)
        /\ UNCHANGED <<last_action, eval_mode, np_random>>
        /\ UNCHANGED confVars

(* --------------------------- construction ----------------------------- *)
\* __init__ assigns _last_state = None and no _last_action; eval_mode belongs
\* to the base class Agent and starts off.  np.random is seeded from the
\* operating system when NumPy is imported: any state.
Init ==
    /\ Q = [i \in Agents |-> ZeroTable]
    /\ last_state = [i \in Agents |-> None]
    /\ last_action = [i \in Agents |-> None]
    /\ eval_mode = [i \in Agents |-> FALSE]
    /\ learning_rate \in LearningRates
    /\ exploration_rate \in ExplorationRates
    /\ discount_factor \in DiscountFactors
    /\ np_random \in 0..(RngMod - 1)
    /\ lastOp = OpRecord("init", 0, FALSE, 0 - 1)
    /\ phase = [i \in Agents |-> "fresh"]
    /\ updates = [i \in Agents |-> 0]
    /\ script = <<>>
    /\ pos = [i \in Agents |-> 0]
    /\ returned = [i \in Agents |-> <<>>]

(* ------------------- one agent, driven freely ------------------------- *)
Seed == \E i \in Solo, s \in Seeds : seed(i, s) /\ UNCHANGED driverVars
SetEvalMode == \E i \in Solo, b \in BOOLEAN : set_eval_mode(i, b) /\ UNCHANGED driverVars
BeginEpisode == \E i \in Solo, o \in Observations : begin_episode(i, o) /\ UNCHANGED driverVars
Act == \E i \in Solo : act(i) /\ UNCHANGED driverVars
Learn == \E i \in Solo, r \in Rewards, o \in Observations : learn(i, r, o) /\ UNCHANGED driverVars

Next == Seed \/ SetEvalMode \/ BeginEpisode \/ Act \/ Learn

Spec == Init /\ [][Next]_vars

(* ------------- one agent, driven by a conforming caller --------------- *)
Conforms == \A i \in Agents : phase'[i] # "off"

LoopSeed == Seed /\ Conforms
LoopSetEvalMode == SetEvalMode /\ Conforms
LoopBeginEpisode == BeginEpisode /\ Conforms
LoopAct == Act /\ Conforms
LoopLearn == Learn /\ Conforms

LoopNext == LoopSeed \/ LoopSetEvalMode \/ LoopBeginEpisode \/ LoopAct \/ LoopLearn

SpecLoop == Init /\ [][LoopNext]_vars

(* ------ two agents, each running the same script of calls ------------- *)
Call(op, arg, r) == [op |-> op, arg |-> arg, reward |-> r]

Calls ==
    {Call("seed", s, 0) : s \in Seeds}
    \cup {Call("eval_mode", b, 0) : b \in {0, 1}}
    \cup {Call("begin_episode", o, 0) : o \in Observations}
    \cup {Call("act", 0, 0)}
    \cup {Call("learn", o, r) : o \in Observations, r \in Rewards}

Perform(i, c) ==
    CASE c.op = "seed" -> seed(i, c.arg)
      [] c.op = "eval_mode" -> set_eval_mode(i, c.arg = 1)
      [] c.op = "begin_episode" -> begin_episode(i, c.arg)
      [] c.op = "act" -> act(i)
      [] c.op = "learn" -> learn(i, c.reward, c.arg)

Record(i, c) ==
    /\ pos' = [pos EXCEPT ![i] = @ + 1]
    /\ returned' = IF c.op = "act"
                   THEN [returned EXCEPT ![i] = Append(@, <<lastOp'.err, lastOp'.ret>>)]
                   ELSE returned

\* the agent that is ahead issues the next call of the script; the first
\* call of every script seeds the agent, and the script keeps the contract
Issue ==
    \E i \in Agents, c \in Calls :
        /\ pos[i] = Len(script)
        /\ Len(script) < MaxScript
        /\ Len(script) = 0 => c.op = "seed"
        /\ Perform(i, c)
        /\ Conforms
        /\ script' = Append(script, c)
        /\ Record(i, c)

\* an agent that is behind runs its next call of the script
Replay ==
    \E i \in Agents :
        /\ pos[i] < Len(script)
        /\ Perform(i, script[pos[i] + 1])
        /\ script' = script
        /\ Record(i, script[pos[i] + 1])

PairNext == Issue \/ Replay

SpecPair == Init /\ [][PairNext]_vars

(* ============================== claims ================================ *)
ValidCursor(i) ==
    /\ last_state[i] # None /\ Val(last_state[i]) \in States
    /\ last_action[i] # None /\ Val(last_action[i]) \in Actions

\* the largest entry of a row, stated without scanning it
RowMax(row) ==
    CHOOSE m \in {row[b] : b \in Actions} : \A b \in Actions : RLeq(row[b], m)

\* the lowest index holding the largest entry of a row
LowestMaximiser(row) ==
    CHOOSE a \in Actions :
        /\ \A b \in Actions : RLeq(row[b], row[a])
        /\ \A b \in Actions : b < a => RLess(row[b], row[a])

\* C1 (update correctness): from a valid cursor (s, a), learn(r, s2) with an
\* in-range s2 leaves Q[s,a] = Q_old[s,a] + learning_rate * (r +
\* discount_factor * max_a2 Q_old[s2,a2] - Q_old[s,a]) and every other cell,
\* of this agent and of the others, as it was.
UpdateCorrectness ==
    [][lastOp'.op = "learn" =>
          LET i == lastOp'.agent
          IN  \A r \in Rewards, s2 \in States :
                (learn(i, r, s2) /\ ValidCursor(i)) =>
                    LET s == Val(last_state[i])
                        a == Val(last_action[i])
                        old == Q[i][s][a]
                        target == RAdd(FromInt(r),
                                       RMul(discount_factor, RowMax(Q[i][s2])))
                    IN  /\ ~lastOp'.err
                        /\ Q'[i][s][a] =
                              RAdd(old, RMul(learning_rate, RSub(target, old)))
                        /\ \A t \in States, b \in Actions :
                              <<t, b>> # <<s, a>> => Q'[i][t][b] = Q[i][t][b]
                        /\ \A j \in Agents \ {i} : Q'[j] = Q[j]
      ]_vars

\* C1 witness: a second update whose target bootstraps from a non-zero row:
\* Q[0,0] = 1/2 after the first, Q[1,0] = 1/2 * (1 + 1/2 * 1/2) = 5/8 now.
UpdateWitness ==
    /\ lastOp.op = "learn" /\ ~lastOp.err
    /\ learning_rate = Half /\ discount_factor = Half
    /\ Q[1][0][0] = <<1, 2>>
    /\ Q[1][1][0] = <<5, 8>>

\* C2 (greedy determinism): in evaluation mode with a valid last_state, act()
\* returns the lowest action index whose Q value is the maximum of row
\* last_state, and leaves Q and last_state as they were, so that a repeated
\* call returns the same action.
GreedyDeterminism ==
    [][\A i \in Agents :
          ( /\ lastOp'.op = "act" /\ lastOp'.agent = i
            /\ eval_mode[i]
            /\ last_state[i] # None /\ Val(last_state[i]) \in States ) =>
              /\ ~lastOp'.err
              /\ lastOp'.ret = LowestMaximiser(Q[i][Val(last_state[i])])
              /\ Q'[i] = Q[i]
              /\ last_state'[i] = last_state[i]
              /\ eval_mode'[i] = eval_mode[i]
      ]_vars

\* C2 witness: an evaluation-mode act() on a learnt row whose two entries tie
\* at a non-zero value returned index 0.
GreedyWitness ==
    /\ lastOp.op = "act" /\ ~lastOp.err /\ eval_mode[lastOp.agent]
    /\ last_state[lastOp.agent] # None
    /\ Val(last_state[lastOp.agent]) \in States
    /\ LET row == Q[lastOp.agent][Val(last_state[lastOp.agent])]
       IN  row[0] = row[1] /\ row[0] # Zero /\ lastOp.ret = 0

\* C7 (action range): while the caller keeps the contract (begin_episode,
\* act, learn, act, learn, ... with in-range observations), every act()
\* returns an integer in [0, num_actions) and last_action is that value.
ActionRange ==
    (lastOp.op = "act" /\ phase[lastOp.agent] # "off") =>
        /\ ~lastOp.err
        /\ lastOp.ret \in Actions
        /\ last_action[lastOp.agent] = Some(lastOp.ret)

\* C7 witness: a training-mode act() that explored: it returned action 1 on a
\* row whose greedy action is 0.
ActionRangeWitness ==
    /\ lastOp.op = "act" /\ ~lastOp.err /\ phase[1] = "acted"
    /\ lastOp.agent = 1 /\ ~eval_mode[1]
    /\ lastOp.ret = 1
    /\ LowestMaximiser(Q[1][Val(last_state[1])]) = 0
    /\ updates[1] > 0

\* C8, as claimed (exploration off): with exploration_rate = 0 a
\* training-mode act() has the outcome of an evaluation-mode act(): the same
\* result and the same agent state after it, random source included.
ExplorationOffIdentical ==
    [][\A i \in Agents :
          ( /\ lastOp'.op = "act" /\ lastOp'.agent = i
            /\ ~eval_mode[i]
            /\ exploration_rate = Zero ) =>
              /\ lastOp'.err = ActOutcome(i, TRUE).err
              /\ lastOp'.ret = ActOutcome(i, TRUE).action
              /\ last_action'[i] = IF ActOutcome(i, TRUE).err THEN last_action[i]
                                   ELSE Some(ActOutcome(i, TRUE).action)
              /\ Q'[i] = Q[i] /\ last_state'[i] = last_state[i]
              /\ RngState(i)' = ActOutcome(i, TRUE).rng
      ]_vars

\* C8, amended: with exploration_rate = 0 a training-mode act() returns what
\* an evaluation-mode act() returns (the greedy, lowest-index action, or the
\* same failure) and leaves Q, last_state and last_action as that call would;
\* the random source alone differs: it has advanced by the one random() draw.
ExplorationOffGreedy ==
    [][\A i \in Agents :
          ( /\ lastOp'.op = "act" /\ lastOp'.agent = i
            /\ ~eval_mode[i]
            /\ exploration_rate = Zero ) =>
              /\ lastOp'.err = ActOutcome(i, TRUE).err
              /\ lastOp'.ret = ActOutcome(i, TRUE).action
              /\ last_action'[i] = IF ActOutcome(i, TRUE).err THEN last_action[i]
                                   ELSE Some(ActOutcome(i, TRUE).action)
              /\ Q'[i] = Q[i] /\ last_state'[i] = last_state[i]
              /\ RngState(i)' = Advance(RngState(i))
              /\ (last_state[i] # None /\ Val(last_state[i]) \in States) =>
                    lastOp'.ret = LowestMaximiser(Q[i][Val(last_state[i])])
      ]_vars

\* C8 witness: a training-mode act() with exploration_rate = 0 that returned
\* the greedy action 1 of a row whose maximum is not at index 0.
ExplorationOffWitness ==
    /\ lastOp.op = "act" /\ ~lastOp.err /\ lastOp.agent = 1
    /\ ~eval_mode[1] /\ exploration_rate = Zero
    /\ lastOp.ret = 1
    /\ last_action[1] = Some(1)

\* C9 (cursor advancement): learn(r, o) and begin_episode(o) leave last_state
\* = o; the act() that follows a learn takes its greedy choice from row o of
\* the updated table, and a learn writes only to the row of the cursor it
\* found, which is the observation of the call before it.
CursorAdvancement ==
    [][LET i == lastOp'.agent
       IN  /\ lastOp'.op = "begin_episode" =>
                \A o \in Observations :
                    begin_episode(i, o) => last_state'[i] = Some(o)
           /\ (lastOp'.op = "learn" /\ ~lastOp'.err) =>
                \A o \in Observations, r \in Rewards :
                    learn(i, r, o) =>
                        /\ last_state'[i] = Some(o)
                        /\ ValidCursor(i) =>
                              \A t \in States \ {Val(last_state[i])} :
                                  Q'[i][t] = Q[i][t]
           /\ ( /\ lastOp.op = "learn" /\ ~lastOp.err /\ lastOp.agent = i
                /\ lastOp'.op = "act"
                /\ eval_mode[i]
                /\ Val(last_state[i]) \in States ) =>
                    lastOp'.ret = LowestMaximiser(Q[i][Val(last_state[i])])
      ]_vars

\* C9 witness: a second learn, whose cursor was the observation 1 of the
\* first: row 1 now holds an update, and the cursor moved on to 0.
CursorWitness ==
    /\ lastOp.op = "learn" /\ ~lastOp.err /\ lastOp.agent = 1
    /\ updates[1] = 2
    /\ last_state[1] = Some(0)
    /\ Q[1][0] # ZeroTable[0]
    /\ Q[1][1] # ZeroTable[1]

\* C10 (act frame): act() changes last_action and the random source only: Q,
\* last_state, the evaluation-mode flag and the hyperparameters are as they
\* were, in both modes (num_states and num_actions are fixed by construction).
ActFrame ==
    [][\A i \in Agents :
          (lastOp'.op = "act" /\ lastOp'.agent = i) =>
              /\ Q' = Q
              /\ last_state' = last_state
              /\ eval_mode' = eval_mode
              /\ learning_rate' = learning_rate
              /\ exploration_rate' = exploration_rate
              /\ discount_factor' = discount_factor
              /\ \A j \in Agents \ {i} : last_action'[j] = last_action[j]
      ]_vars

\* C10 witness: a training-mode act() on a learnt table that returned an
\* action other than the index of the state it stands in.
ActFrameWitness ==
    /\ lastOp.op = "act" /\ ~lastOp.err /\ lastOp.agent = 1
    /\ ~eval_mode[1]
    /\ Q[1] # ZeroTable
    /\ last_state[1] = Some(0) /\ last_action[1] = Some(1)

\* C5, as claimed (InvalidState): act() or learn() before begin_episode, and
\* learn() before any act(), fail with an error, return nothing and leave Q
\* as it was.
InvalidStateSurfaced ==
    [][\A i \in Agents :
          ( /\ lastOp'.agent = i
            /\ \/ lastOp'.op = "act" /\ last_state[i] = None
               \/ lastOp'.op = "learn" /\ (last_state[i] = None \/ last_action[i] = None) ) =>
              /\ lastOp'.err
              /\ lastOp'.ret = 0 - 1
              /\ Q' = Q
      ]_vars

\* C6, as claimed (IndexOutOfRange): an observation outside [0, num_states)
\* given to begin_episode or learn is an error: it is not stored as
\* last_state and no row of Q is read or written for it.
IndexOutOfRangeSurfaced ==
    [][\A i \in Agents, o \in Observations \ States, r \in Rewards :
          (begin_episode(i, o) \/ learn(i, r, o)) =>
              /\ lastOp'.err
              /\ last_state' = last_state
              /\ Q' = Q
      ]_vars

\* C3, as claimed (determinism under seeding): two fresh agents with the same
\* hyperparameters, seeded alike and run through the same script, have
\* returned the same actions and hold the same Q table whenever they stand at
\* the same place of the script, however their calls interleave.
SeededDeterminism ==
    \A i, j \in Agents :
        (pos[i] = pos[j] /\ pos[i] >= 1) =>
            /\ returned[i] = returned[j]
            /\ Q[i] = Q[j]

\* C4, as claimed (random-source ownership): seed() or act() on one agent
\* leaves the random source of every other agent as it was.
RandomSourceOwned ==
    [][\A i \in Agents :
          (lastOp'.agent = i /\ lastOp'.op \in {"seed", "act"}) =>
              \A j \in Agents \ {i} : RngState(j)' = RngState(j)
      ]_vars

====
